---- MODULE Spec2Model ----
(***************************************************************************)
(* Model of the RAG chat application (next-rag-demo-jp).                   *)
(*                                                                         *)
(*  - the document / chunk store and scoped similarity retrieval           *)
(*    (lib/vector-store, lib/actions/document.actions)                     *)
(*  - the agent pipeline of lib/agent.ts: thread memory held by the        *)
(*    checkpointer, summarization, query transformation, retrieval and     *)
(*    generation.                                                          *)
(***************************************************************************)
EXTENDS Integers, Sequences, FiniteSets, TLC

(***************************************************************************)
(* Bounds of the model.                                                    *)
(***************************************************************************)
ChunksPerDoc == 2
MaxVec == 2
\* longest list of messages one request carries
MaxBatch == 13
\* requests of one conversation
MaxTurns == 2

DocIds == {1, 2, 3}
ChatIds == {"c1", "c2"}
QueryVecs == 0..MaxVec

\* AI_CONFIG.topK
AI_CONFIG_topK == 5

\* topK arguments tried by the callers of searchSimilarChunks
TopKs == {0, 2, AI_CONFIG_topK}

\* a chat id that is null or undefined
NULL == "NULL"

\* a vector column that holds SQL NULL, and one that holds vector v
NoVector == <<>>
Vector(v) == <<v>>

VARIABLES
  documents,      \* ids of the rows of table documents
  chatDocs,       \* rows of the join table: <<chatId, documentId>>
  embeddingsTbl,  \* rows of table embeddings
  searchOut,      \* outcome of the last searchSimilarChunks call
  checkpoint,     \* MemorySaver: thread_id -> the messages saved for the thread
  turn,           \* the run of the agent in progress: its position and state
  fmt,            \* one application of formatContextForLLM and of the prompt template
  messagesTbl,    \* rows of table messages, per chat, in the order of their creation
  clients,        \* the chat box of each browser tab: its chat and the state of useChat
  requests,       \* the POST /api/chat request of each tab and the run it started
  files,          \* the blobs, the sizes of the documents and the last uploadDocument call
  usage           \* the credits service as getUsageState sees it, and what it returned

storeVars == <<documents, chatDocs, embeddingsTbl, searchOut>>
agentVars == <<checkpoint, turn>>
formatVars == <<fmt>>
clientVars == <<messagesTbl, clients, requests>>
fileVars == <<files, usage>>
vars == <<documents, chatDocs, embeddingsTbl, searchOut, checkpoint, turn, fmt,
          messagesTbl, clients, requests, files, usage>>

\* what the actions of the store, and those of the agent, leave alone
outsideStore == <<agentVars, formatVars, clientVars, fileVars>>
outsideAgent == <<storeVars, formatVars, clientVars, fileVars>>

(***************************************************************************)
(* Embeddings: embed(text) is a deterministic function of the text. The    *)
(* text of chunk i of document d is fixed, so is its vector; a query is    *)
(* identified with its vector. Distance stands for pgvector's <=>.         *)
(***************************************************************************)
generateEmbedding(d, i) == (2 * d + i) % (MaxVec + 1)

Distance(v, q) == IF v >= q THEN v - q ELSE q - v

\* searchOut while no call of searchSimilarChunks has returned since the store
\* last changed
NoSearch == [status |-> "none", rows |-> <<>>, query |-> 0, chatId |-> NULL, topK |-> 0]

\* no blob is stored, no upload was made; other is the sum of the sizes of the
\* documents that are not followed one by one
NoUpload == [status |-> "none", reason |-> "none", size |-> 0, total |-> 0]

NoFiles == [blobs |-> {}, size |-> [d \in DocIds |-> 0], other |-> 0, upload |-> NoUpload]

\* a number of credits, in hundredths of a credit, or NaN
Num(v) == [nan |-> FALSE, value |-> v]
NaN == [nan |-> TRUE, value |-> 0]

\* before getUsageState is called
NoResult ==
  [called |-> FALSE, credits |-> Num(0), totalBytes |-> 0,
   isCreditLimitReached |-> FALSE, isStorageLimitReached |-> FALSE,
   isLimitReached |-> FALSE]

NoUsage ==
  [apiKey |-> FALSE, lookup |-> "ok", balance |-> [kind |-> "missing", value |-> 0],
   result |-> NoResult]

\* file.name of the upload that created document d
Filename(d) == IF d = 3 THEN "b.txt" ELSE "a.txt"

ChunkRows(d) == {r \in embeddingsTbl : r.documentId = d}

(***************************************************************************)
(* uploadDocument: prisma.document.create, with a row of the join table    *)
(* when a chatId came with the form and none otherwise.                    *)
(***************************************************************************)
UploadLinks(d, chatId) == IF chatId # NULL THEN {<<chatId, d>>} ELSE {}

uploadDocument(d, chatId) ==
  /\ UNCHANGED outsideStore
  /\ d \notin documents
  /\ documents' = documents \cup {d}
  /\ chatDocs' = chatDocs \cup UploadLinks(d, chatId)
  /\ searchOut' = NoSearch
  /\ UNCHANGED embeddingsTbl

(***************************************************************************)
(* storeEmbeddings, first half: one transaction creates a row per chunk,   *)
(* without its vector.                                                     *)
(***************************************************************************)
storeEmbeddingsCreate(d) ==
  /\ UNCHANGED outsideStore
  /\ d \in documents
  /\ ChunkRows(d) = {}
  /\ embeddingsTbl' = embeddingsTbl \cup
       {[id |-> <<d, i>>, documentId |-> d, chunkIndex |-> i, embedding |-> NoVector]
          : i \in 0..(ChunksPerDoc - 1)}
  /\ searchOut' = NoSearch
  /\ UNCHANGED <<documents, chatDocs>>

(***************************************************************************)
(* storeEmbeddings, second half: vectorStore.addModels embeds the chunk    *)
(* texts and writes the vectors of the rows just created.                  *)
(***************************************************************************)
storeEmbeddingsAddModels(d) ==
  /\ UNCHANGED outsideStore
  /\ ChunkRows(d) # {}
  /\ \A r \in ChunkRows(d) : r.embedding = NoVector
  /\ embeddingsTbl' = (embeddingsTbl \ ChunkRows(d)) \cup
       {[r EXCEPT !.embedding = Vector(generateEmbedding(d, r.chunkIndex))] : r \in ChunkRows(d)}
  /\ searchOut' = NoSearch
  /\ UNCHANGED <<documents, chatDocs>>

(***************************************************************************)
(* addDocumentToChat / removeDocumentFromChat: create or delete one row    *)
(* of the join table; the update throws when the document does not exist,  *)
(* the link is already there (create) or is not there (delete).            *)
(***************************************************************************)
addDocumentToChat(d, chatId) ==
  /\ UNCHANGED outsideStore
  /\ d \in documents
  /\ <<chatId, d>> \notin chatDocs
  /\ chatDocs' = chatDocs \cup {<<chatId, d>>}
  /\ searchOut' = NoSearch
  /\ UNCHANGED <<documents, embeddingsTbl>>

removeDocumentFromChat(d, chatId) ==
  /\ UNCHANGED outsideStore
  /\ d \in documents
  /\ <<chatId, d>> \in chatDocs
  /\ chatDocs' = chatDocs \ {<<chatId, d>>}
  /\ searchOut' = NoSearch
  /\ UNCHANGED <<documents, embeddingsTbl>>

(***************************************************************************)
(* deleteDocument(id): findUnique for the url, del(url) of the blob, then  *)
(* prisma.document.delete. The rows that refer to the document go with it  *)
(* (the relations of the schema): "deleted removes all owned Chunks".      *)
(***************************************************************************)
\* table embeddings after the delete of document d
CascadeEmbeddings(d) == embeddingsTbl \ ChunkRows(d)

\* the join table after the delete of document d
CascadeLinks(d) == {l \in chatDocs : l[2] # d}

\* mutant: the blob is deleted, the row of the document is not
deleteDocument_BlobOnly(d) ==
  /\ d \in documents
  /\ d \in files.blobs
  /\ files' = [files EXCEPT !.blobs = @ \ {d}]
  /\ searchOut' = NoSearch
  /\ UNCHANGED <<documents, chatDocs, embeddingsTbl>>
  /\ UNCHANGED <<agentVars, formatVars, clientVars, usage>>

deleteDocument(d) ==
  /\ d \in documents
  /\ files' = [files EXCEPT !.blobs = @ \ {d}]
  /\ documents' = documents \ {d}
  /\ chatDocs' = CascadeLinks(d)
  /\ embeddingsTbl' = CascadeEmbeddings(d)
  /\ searchOut' = NoSearch
  /\ UNCHANGED <<agentVars, formatVars, clientVars, usage>>

\* deleteDocument when prisma.document.delete throws after del(url): the blob
\* is gone, the rows stay
deleteDocumentFails(d) ==
  /\ d \in documents
  /\ d \in files.blobs
  /\ files' = [files EXCEPT !.blobs = @ \ {d}]
  /\ UNCHANGED <<storeVars, agentVars, formatVars, clientVars, usage>>

(***************************************************************************)
(* searchSimilarChunks(query, chatId, topK)                                *)
(***************************************************************************)
\* mutant: the scope filter is lost
ChatDocIds_AllDocuments(chatId) == documents

\* prisma.document.findMany({where: {chats: {some: {chatId}}}})
ChatDocIds(chatId) == {d \in documents : <<chatId, d>> \in chatDocs}

\* ORDER BY "_distance" ASC: rows without a vector have a NULL distance and
\* sort last
SortKey(r, q) == IF r.embedding = NoVector THEN MaxVec + 1 ELSE Distance(r.embedding[1], q)

RECURSIVE OrderByDistance(_, _)
OrderByDistance(rows, q) ==
  IF rows = {} THEN <<>>
  ELSE LET first == CHOOSE r \in rows : \A s \in rows : SortKey(r, q) <= SortKey(s, q)
       IN <<first>> \o OrderByDistance(rows \ {first}, q)

\* mutant: the LIMIT is lost
Limit_None(seq, k) == seq

Limit(seq, k) == SubSeq(seq, 1, IF Len(seq) < k THEN Len(seq) ELSE k)

\* mutant: rows with a null distance are kept
HasDistance_Any(r) == TRUE

HasDistance(r) == r.embedding # NoVector

\* vectorStore.similaritySearch(query, topK, {documentId: {in: docIds}}):
\* WHERE "documentId" IN (docIds) ORDER BY "_distance" ASC LIMIT topK, then
\* the rows whose distance is not null
similaritySearch(q, topK, docIds) ==
  SelectSeq(Limit(OrderByDistance({r \in embeddingsTbl : r.documentId \in docIds}, q), topK),
            HasDistance)

\* the IN list of the filter is built from docIds; an empty list is not a
\* list the SQL layer accepts, and the call rejects
FilterRejected(docIds) == docIds = {}

ToResult(r) ==
  [id |-> r.id, chunkIndex |-> r.chunkIndex, documentId |-> r.documentId,
   filename |-> Filename(r.documentId), similarity |-> 1]

MapResults(rows) == [n \in 1..Len(rows) |-> ToResult(rows[n])]

searchSimilarChunks(q, chatId, topK) ==
  IF FilterRejected(ChatDocIds(chatId))
  THEN [status |-> "error", rows |-> <<>>]
  ELSE [status |-> "ok", rows |-> MapResults(similaritySearch(q, topK, ChatDocIds(chatId)))]

Search(q, chatId, topK) ==
  /\ UNCHANGED outsideStore
  /\ LET out == searchSimilarChunks(q, chatId, topK)
     IN searchOut' = [status |-> out.status, rows |-> out.rows,
                      query |-> q, chatId |-> chatId, topK |-> topK]
  /\ UNCHANGED <<documents, chatDocs, embeddingsTbl>>

(***************************************************************************)
(* formatContextForLLM(chunks): the lines of the context. Chunks are       *)
(* grouped by filename, the groups in the order in which each filename     *)
(* first appears, each group sorted by chunkIndex (a stable sort).         *)
(***************************************************************************)
Line(kind, filename, id) == [kind |-> kind, filename |-> filename, id |-> id]

NoId == <<0, 0>>

RECURSIVE GroupKeys(_)
GroupKeys(chunks) ==
  IF chunks = <<>> THEN <<>>
  ELSE LET rest == GroupKeys(SubSeq(chunks, 1, Len(chunks) - 1))
           key == chunks[Len(chunks)].filename
       IN IF \E n \in 1..Len(rest) : rest[n] = key THEN rest ELSE Append(rest, key)

RECURSIVE InsertByIndex(_, _)
InsertByIndex(sorted, c) ==
  IF sorted = <<>> THEN <<c>>
  ELSE IF sorted[Len(sorted)].chunkIndex <= c.chunkIndex THEN Append(sorted, c)
  ELSE Append(InsertByIndex(SubSeq(sorted, 1, Len(sorted) - 1), c), sorted[Len(sorted)])

\* mutant: the group is left in the order of the ranking
SortByIndex_Unsorted(chunks) == chunks

RECURSIVE SortByIndex(_)
SortByIndex(chunks) ==
  IF chunks = <<>> THEN <<>>
  ELSE InsertByIndex(SortByIndex(SubSeq(chunks, 1, Len(chunks) - 1)), chunks[Len(chunks)])

GroupLines(chunks, filename) ==
  LET docChunks == SelectSeq(chunks, LAMBDA c : c.filename = filename)
      sortedChunks == SortByIndex(docChunks)
  IN <<Line("header", filename, NoId)>>
       \o [n \in 1..Len(sortedChunks) |-> Line("chunk", filename, sortedChunks[n].id)]
       \o <<Line("separator", filename, NoId)>>

RECURSIVE AllGroupLines(_, _)
AllGroupLines(chunks, keys) ==
  IF keys = <<>> THEN <<>>
  ELSE GroupLines(chunks, keys[1]) \o AllGroupLines(chunks, Tail(keys))

formatContextForLLM(chunks) ==
  IF Len(chunks) = 0 THEN <<>>
  ELSE <<Line("intro", "", NoId)>> \o AllGroupLines(chunks, GroupKeys(chunks))
         \o <<Line("outro", "", NoId)>>

\* the text of no line at all is the empty string
EmptyText == <<>>

\* `${context || placeholder}`: the section of the system prompt under the
\* heading of the context
Placeholder == <<Line("placeholder", "", NoId)>>

\* mutant: the context is put in the prompt as it is
ContextSection_AsIs(context) == context

ContextSection(context) == IF context = EmptyText THEN Placeholder ELSE context

\* the system message of the prompt callback: the fixed instructions, then
\* the section of the context
SystemPrompt(context) == [instructions |-> "fixed", context |-> ContextSection(context)]

NoPrompt == [instructions |-> "none", context |-> <<>>]

\* fmt before any result list was handed to formatContextForLLM
NoFormat == [pc |-> "none", chunks |-> <<>>, context |-> <<>>, prompt |-> NoPrompt]

(***************************************************************************)
(* The browser tabs (components/chat-box.tsx) and their requests. A tab    *)
(* shows one chat, or none.                                                *)
(***************************************************************************)
Clients == {"k1", "k2"}

\* useChat of a tab that has sent nothing; ui counts the messages of its state
NewClient(chatId) ==
  [chatId |-> chatId, status |-> "ready", sent |-> 0, ui |-> 0, partial |-> 0,
   lastSend |-> "none"]

NoRequest == [pc |-> "none", thread |-> "none", no |-> 0]

\* no tab is open
NoClients ==
  /\ messagesTbl = [c \in ChatIds |-> <<>>]
  /\ clients = [k \in Clients |-> NewClient(NULL)]
  /\ requests = [k \in Clients |-> NoRequest]

(***************************************************************************)
(* The agent of lib/agent.ts. A message is [type, text]; a text is         *)
(* <<origin, n>>: what the user or the client sent (origin "user" or       *)
(* "assistant", n the place in the request), what the model answered       *)
(* ("answer"), the query the model rewrote ("standalone"), a summary       *)
(* ("summary") or the text that stands for a summary that failed           *)
(* ("summaryError").                                                       *)
(***************************************************************************)
Msg(type, origin, n) == [type |-> type, text |-> <<origin, n>>]

\* trigger: { messages: 12 } and keep: { messages: 4 }
TriggerMessages == 12
KeepMessages == 4

DefaultThread == "default-thread"
ThreadIds == ChatIds \cup {DefaultThread}

\* const threadId = chatId || 'default-thread'
ThreadOf(chatId) == IF chatId = NULL THEN DefaultThread ELSE chatId

Other(type) == IF type = "human" THEN "ai" ELSE "human"

\* the messages of a request: n messages, human and ai in turns, the last of
\* type lastType
Batch(n, lastType) ==
  [i \in 1..n |->
     IF (n - i) % 2 = 0
     THEN Msg(lastType, IF lastType = "human" THEN "user" ELSE "assistant", i)
     ELSE Msg(Other(lastType), IF lastType = "human" THEN "assistant" ELSE "user", i)]

Last(msgs) == msgs[Len(msgs)]

\* the messages of an empty turn: one user message whose text is empty or
\* white space
EmptyTurn == <<Msg("human", "user", 0)>>

\* text.trim().length = 0: an empty message of a request, or an empty answer
\* of the model to the request for a standalone query
IsBlank(text) == text[2] = 0 /\ text[1] \in {"user", "assistant", "blankQuery"}

IdleTurn ==
  [pc |-> "Idle", no |-> 0, chatId |-> NULL, messages |-> <<>>, stageIn |-> <<>>,
   calls |-> {}, summarized |-> FALSE, rewritten |-> FALSE,
   query |-> <<"none", 0>>, retrieval |-> "none", context |-> <<>>, prompt |-> NoPrompt,
   window |-> <<>>]

\* after every step of the graph the checkpointer saves the state of the run
Save(chatId, msgs) == [checkpoint EXCEPT ![ThreadOf(chatId)] = msgs]

(***************************************************************************)
(* POST /api/chat -> runRagAgent(messages, chatId): the messages of the    *)
(* request are added to the saved messages of the thread.                  *)
(***************************************************************************)
\* one behaviour follows one conversation: the other threads are empty
OnlyThread(chatId) == \A t \in ThreadIds \ {ThreadOf(chatId)} : checkpoint[t] = <<>>

runRagAgent(chatId, batch) ==
  /\ turn.pc \in {"Idle", "Completed", "Failed"}
  /\ Len(batch) # 0
  /\ OnlyThread(chatId)
  /\ turn.no < MaxTurns
  /\ turn' = [IdleTurn EXCEPT !.pc = "MaybeSummarize", !.no = turn.no + 1,
                              !.chatId = chatId,
                              !.messages = checkpoint[ThreadOf(chatId)] \o batch]
  /\ checkpoint' = Save(chatId, checkpoint[ThreadOf(chatId)] \o batch)
  /\ UNCHANGED outsideAgent

(***************************************************************************)
(* summarizationMiddleware({trigger: {messages: 12}, keep: {messages: 4}}) *)
(* The middleware runs once the number of messages has reached the         *)
(* trigger; it replaces the messages by one summary message followed by    *)
(* the last `keep` messages. A failed model call is caught inside the      *)
(* middleware, which then uses an error text as the summary.               *)
(***************************************************************************)
\* mutant: the trigger compared with > instead of >=
ShouldSummarize_Above(msgs) == Len(msgs) > TriggerMessages

ShouldSummarize(msgs) == Len(msgs) >= TriggerMessages

\* mutant: the cut is one message early
CutoffIndex_OneEarly(msgs) ==
  IF Len(msgs) <= KeepMessages THEN 0 ELSE Len(msgs) - KeepMessages - 1

CutoffIndex(msgs) == IF Len(msgs) <= KeepMessages THEN 0 ELSE Len(msgs) - KeepMessages

\* mutant: the summarized messages are not dropped
Preserved_All(msgs) == msgs

Preserved(msgs) == SubSeq(msgs, CutoffIndex(msgs) + 1, Len(msgs))

SummaryMessage(modelOk) ==
  IF modelOk THEN Msg("summary", "summary", 0) ELSE Msg("summary", "summaryError", 0)

Summarized(msgs, modelOk) == <<SummaryMessage(modelOk)>> \o Preserved(msgs)

Summarizes(msgs) == ShouldSummarize(msgs) /\ CutoffIndex(msgs) > 0

summarizationMiddleware(msgs, modelOk) ==
  IF Summarizes(msgs) THEN Summarized(msgs, modelOk) ELSE msgs

MaybeSummarize(modelOk) ==
  /\ turn.pc = "MaybeSummarize"
  /\ Summarizes(turn.messages) \/ modelOk
  /\ turn' = [turn EXCEPT !.pc = "Rewrite",
                          !.stageIn = turn.messages,
                          !.messages = summarizationMiddleware(turn.messages, modelOk),
                          !.summarized = Summarizes(turn.messages),
                          !.calls = IF Summarizes(turn.messages)
                                    THEN turn.calls \cup
                                           {IF modelOk THEN "summarize" ELSE "summarizeFailed"}
                                    ELSE turn.calls]
  /\ checkpoint' = Save(turn.chatId, summarizationMiddleware(turn.messages, modelOk))
  /\ UNCHANGED outsideAgent

(***************************************************************************)
(* queryTransformMiddleware.beforeModel                                    *)
(***************************************************************************)
\* mutant: the test of the length is lost
NeedsTransform_NoLengthTest(msgs) == Last(msgs).type = "human"

NeedsTransform(msgs) == ~(Len(msgs) <= 1 \/ Last(msgs).type # "human")

\* aiModel.invoke([SystemMessage(...), ...messages]): the messages of the log
\* that go to the model with the instruction
TransformInput(msgs) == msgs

\* what the model may answer to the request for a standalone query
StandaloneQueries(msgs) == {<<"standalone", 0>>, <<"blankQuery", 0>>, Last(msgs).text}

\* messages: [RemoveMessage(REMOVE_ALL_MESSAGES), HumanMessage(standaloneQuery)]
Transformed(msgs, standaloneQuery) == <<[type |-> "human", text |-> standaloneQuery]>>

QueryTransformSkip ==
  /\ turn.pc = "Rewrite"
  /\ ~NeedsTransform(turn.messages)
  /\ turn' = [turn EXCEPT !.pc = "Retrieve", !.stageIn = turn.messages]
  /\ UNCHANGED <<checkpoint, outsideAgent>>

QueryTransform ==
  /\ turn.pc = "Rewrite"
  /\ NeedsTransform(turn.messages)
  /\ \E standaloneQuery \in StandaloneQueries(turn.messages) :
       /\ turn' = [turn EXCEPT !.pc = "Retrieve",
                               !.stageIn = turn.messages,
                               !.messages = Transformed(turn.messages, standaloneQuery),
                               !.rewritten = TRUE,
                               !.window = TransformInput(turn.messages),
                               !.calls = turn.calls \cup {"transform"}]
       /\ checkpoint' = Save(turn.chatId, Transformed(turn.messages, standaloneQuery))
  /\ UNCHANGED outsideAgent

\* aiModel.invoke throws: nothing catches it and the run fails
QueryTransformFails ==
  /\ turn.pc = "Rewrite"
  /\ NeedsTransform(turn.messages)
  /\ turn' = [turn EXCEPT !.pc = "Failed", !.stageIn = turn.messages,
                          !.window = TransformInput(turn.messages),
                          !.calls = turn.calls \cup {"transformFailed"}]
  /\ UNCHANGED <<checkpoint, outsideAgent>>

(***************************************************************************)
(* dynamicSystemPromptMiddleware callback: retrieval with the text of the  *)
(* last message, and the system prompt.                                    *)
(***************************************************************************)
\* the vector of a query text
EmbedQuery(text) == text[2] % (MaxVec + 1)

\* mutant: the test of the chat id is lost
ShouldRetrieve_AnyChat(chatId, standaloneQuery) == ~IsBlank(standaloneQuery)

\* if (chatId && standaloneQuery.trim().length > 0)
ShouldRetrieve(chatId, standaloneQuery) == chatId # NULL /\ ~IsBlank(standaloneQuery)

RetrieveAndCompose ==
  /\ turn.pc = "Retrieve"
  /\ LET standaloneQuery == Last(turn.messages).text
     IN IF ShouldRetrieve(turn.chatId, standaloneQuery)
        THEN LET out == searchSimilarChunks(EmbedQuery(standaloneQuery), turn.chatId, AI_CONFIG_topK)
             IN IF out.status = "ok"
                THEN turn' = [turn EXCEPT !.pc = "Generate", !.stageIn = turn.messages,
                                          !.query = standaloneQuery, !.retrieval = "ok",
                                          !.context = formatContextForLLM(out.rows),
                                          !.prompt = SystemPrompt(formatContextForLLM(out.rows))]
                ELSE turn' = [turn EXCEPT !.pc = "Failed", !.stageIn = turn.messages,
                                          !.query = standaloneQuery, !.retrieval = "error"]
        ELSE turn' = [turn EXCEPT !.pc = "Generate", !.stageIn = turn.messages,
                                  !.query = standaloneQuery, !.retrieval = "skipped",
                                  !.prompt = SystemPrompt(EmptyText)]
  /\ UNCHANGED <<checkpoint, outsideAgent>>

\* the embedding call or a query of searchSimilarChunks throws: nothing in the
\* callback catches it and the run fails
RetrieveFails ==
  /\ turn.pc = "Retrieve"
  /\ ShouldRetrieve(turn.chatId, Last(turn.messages).text)
  /\ turn' = [turn EXCEPT !.pc = "Failed", !.stageIn = turn.messages,
                          !.query = Last(turn.messages).text, !.retrieval = "error",
                          !.calls = turn.calls \cup {"retrieveFailed"}]
  /\ UNCHANGED <<checkpoint, outsideAgent>>

(***************************************************************************)
(* The model call of the agent: the answer is added to the messages.       *)
(***************************************************************************)
Generate ==
  /\ turn.pc = "Generate"
  /\ turn' = [turn EXCEPT !.pc = "Completed", !.stageIn = turn.messages,
                          !.messages = Append(turn.messages, Msg("ai", "answer", 0)),
                          !.calls = turn.calls \cup {"generate"}]
  /\ checkpoint' = Save(turn.chatId, Append(turn.messages, Msg("ai", "answer", 0)))
  /\ UNCHANGED outsideAgent

GenerateFails ==
  /\ turn.pc = "Generate"
  /\ turn' = [turn EXCEPT !.pc = "Failed", !.stageIn = turn.messages,
                          !.calls = turn.calls \cup {"generateFailed"}]
  /\ UNCHANGED <<checkpoint, outsideAgent>>

\* the store of the agent's runs: document 1 linked to chat c1, document 2
\* linked to no chat, both with their vectors; chat c2 has no document
AgentStore ==
  /\ documents = {1, 2}
  /\ chatDocs = {<<"c1", 1>>}
  /\ embeddingsTbl =
       {[id |-> <<d, i>>, documentId |-> d, chunkIndex |-> i,
         embedding |-> Vector(generateEmbedding(d, i))] : d \in {1, 2}, i \in 0..(ChunksPerDoc - 1)}
  /\ searchOut = NoSearch

AgentInit ==
  /\ AgentStore
  /\ checkpoint = [t \in ThreadIds |-> <<>>]
  /\ turn = IdleTurn
  /\ fmt = NoFormat
  /\ NoClients
  /\ files = NoFiles
  /\ usage = NoUsage

AgentNext ==
  \/ \E c \in ChatIds \cup {NULL}, n \in 1..MaxBatch, t \in {"human", "ai"} :
       runRagAgent(c, Batch(n, t))
  \/ \E c \in ChatIds \cup {NULL} : runRagAgent(c, EmptyTurn)
  \/ \E ok \in BOOLEAN : MaybeSummarize(ok)
  \/ QueryTransformSkip
  \/ QueryTransform
  \/ QueryTransformFails
  \/ RetrieveAndCompose
  \/ RetrieveFails
  \/ Generate
  \/ GenerateFails

SpecAgent == AgentInit /\ [][AgentNext]_vars

(***************************************************************************)
(* C3: when summarization is performed, the log becomes one summary        *)
(* message followed by the 4 most recent messages of the log before it,    *)
(* verbatim and in their order, and nothing else.                          *)
(***************************************************************************)
JustSummarized == turn.pc = "Rewrite" /\ turn.summarized

C3_SummaryPlusLastKeep ==
  JustSummarized =>
    /\ Len(turn.messages) = 1 + KeepMessages
    /\ turn.messages[1].type = "summary"
    /\ \A i \in 1..KeepMessages :
         /\ turn.messages[1 + i] = turn.stageIn[Len(turn.stageIn) - KeepMessages + i]
         /\ turn.messages[1 + i].type # "summary"
    /\ checkpoint[ThreadOf(turn.chatId)] = turn.messages

\* a log of 13 messages was summarized
C3_Witness == JustSummarized /\ Len(turn.stageIn) = TriggerMessages + 1

(***************************************************************************)
(* C4 as stated: maybeSummarize changes the log if and only if the log is  *)
(* longer than the trigger, 12.                                            *)
(***************************************************************************)
AfterMaybeSummarize == turn.pc = "Rewrite"

C4_ChangesIffAboveTrigger ==
  AfterMaybeSummarize =>
    ((turn.messages # turn.stageIn) <=> (Len(turn.stageIn) > TriggerMessages))

(***************************************************************************)
(* C4 amended: maybeSummarize changes the log if and only if the log has   *)
(* at least 12 messages: 11 or fewer are left untouched, 12 or more are    *)
(* summarized, once.                                                       *)
(***************************************************************************)
C4_ChangesIffAtLeastTrigger ==
  AfterMaybeSummarize =>
    /\ (turn.messages # turn.stageIn) <=> (Len(turn.stageIn) >= TriggerMessages)
    /\ turn.summarized <=> (Len(turn.stageIn) >= TriggerMessages)
    /\ Cardinality(turn.calls \cap {"summarize", "summarizeFailed"})
         = IF Len(turn.stageIn) >= TriggerMessages THEN 1 ELSE 0

\* a log of exactly 12 messages was summarized
C4_Witness ==
  AfterMaybeSummarize /\ Len(turn.stageIn) = TriggerMessages /\ turn.messages # turn.stageIn

(***************************************************************************)
(* C5: maybeSummarize is idempotent: applied again to the log it left,     *)
(* with nothing appended, it does not summarize (no model call) and        *)
(* leaves the same log.                                                    *)
(***************************************************************************)
C5_SummarizeIdempotent ==
  AfterMaybeSummarize =>
    /\ ~Summarizes(turn.messages)
    /\ \A ok \in BOOLEAN : summarizationMiddleware(turn.messages, ok) = turn.messages

\* the first application did summarize
C5_Witness == JustSummarized /\ Len(turn.stageIn) > TriggerMessages

(***************************************************************************)
(* C6: if the model call of the summarization fails, the log after the     *)
(* stage is the log before it, and the run goes on to the Rewrite stage.   *)
(***************************************************************************)
C6_SummaryFailureKeepsLog ==
  "summarizeFailed" \in turn.calls =>
    /\ turn.pc # "MaybeSummarize"
    /\ AfterMaybeSummarize =>
         /\ turn.messages = turn.stageIn
         /\ checkpoint[ThreadOf(turn.chatId)] = turn.stageIn

(***************************************************************************)
(* C7: when the log has at most one message or its last message is not     *)
(* from the user, the Rewrite stage calls no model and leaves the log,     *)
(* and the working query is the text of the last message.                  *)
(***************************************************************************)
C7_NoRewritePassThrough ==
  /\ (turn.pc \in {"Retrieve", "Failed"} /\ turn.retrieval = "none" /\ turn.stageIn # <<>>
        /\ (Len(turn.stageIn) <= 1 \/ Last(turn.stageIn).type # "human"))
       => /\ turn.calls \cap {"transform", "transformFailed"} = {}
          /\ turn.pc = "Retrieve"
          /\ turn.messages = turn.stageIn
  /\ (turn.pc = "Generate" /\ ~turn.rewritten)
       => /\ turn.query = Last(turn.stageIn).text
          /\ turn.query[1] \in {"user", "assistant"}

\* the first message of a thread went through the stage and became the query
C7_Witness ==
  /\ turn.pc = "Generate"
  /\ ~turn.rewritten
  /\ Len(turn.stageIn) = 1
  /\ turn.query = <<"user", 1>>

(***************************************************************************)
(* C8: the rewritten query is never saved in the thread as a user          *)
(* message: every human message of a saved log carries the text the user   *)
(* sent.                                                                   *)
(***************************************************************************)
C8_SavedUserMessagesLiteral ==
  \A t \in ThreadIds : \A n \in 1..Len(checkpoint[t]) :
    checkpoint[t][n].type = "human" => checkpoint[t][n].text[1] = "user"

StoreInit ==
  /\ documents = {}
  /\ chatDocs = {}
  /\ embeddingsTbl = {}
  /\ searchOut = NoSearch
  /\ checkpoint = [t \in ThreadIds |-> <<>>]
  /\ turn = IdleTurn
  /\ fmt = NoFormat
  /\ NoClients
  /\ files = NoFiles
  /\ usage = NoUsage

StoreNext ==
  \/ \E d \in DocIds, c \in ChatIds \cup {NULL} : uploadDocument(d, c)
  \/ \E d \in DocIds : storeEmbeddingsCreate(d)
  \/ \E d \in DocIds : storeEmbeddingsAddModels(d)
  \/ \E d \in DocIds, c \in ChatIds : addDocumentToChat(d, c)
  \/ \E d \in DocIds, c \in ChatIds : removeDocumentFromChat(d, c)
  \/ \E q \in QueryVecs, c \in ChatIds, k \in TopKs : Search(q, c, k)

SpecStore == StoreInit /\ [][StoreNext]_vars

(***************************************************************************)
(* C1: retrieval for a chat never returns a chunk whose owning document    *)
(* is linked to other chats only.                                          *)
(***************************************************************************)
OwnerOf(id) == (CHOOSE r \in embeddingsTbl : r.id = id).documentId

LinkedChats(d) == {c \in ChatIds : <<c, d>> \in chatDocs}

ScopedOnlyToOthers(d, chatId) == LinkedChats(d) # {} /\ chatId \notin LinkedChats(d)

ReturnedIds == {searchOut.rows[n].id : n \in 1..Len(searchOut.rows)}

C1_RetrieveNeverCrossesScope ==
  searchOut.status = "ok" =>
    \A id \in ReturnedIds : ~ScopedOnlyToOthers(OwnerOf(id), searchOut.chatId)

\* a search that returned chunks while a document with stored vectors was
\* linked to another chat only
C1_Witness ==
  /\ searchOut.status = "ok"
  /\ searchOut.rows # <<>>
  /\ \E d \in documents :
       /\ ScopedOnlyToOthers(d, searchOut.chatId)
       /\ \E r \in ChunkRows(d) : r.embedding # NoVector

(***************************************************************************)
(* C2: the chunks of a document linked to no chat are returned to every    *)
(* chat whenever they rank within topK among the chunks the chat may see.  *)
(***************************************************************************)
IsGlobal(d) == d \in documents /\ LinkedChats(d) = {}

Candidates(chatId) ==
  {r \in embeddingsTbl : /\ r.embedding # NoVector
                         /\ (IsGlobal(r.documentId) \/ <<chatId, r.documentId>> \in chatDocs)}

\* fewer than topK candidates are at least as close to the query as r is
RanksWithin(r, chatId, q, topK) ==
  Cardinality({s \in Candidates(chatId) :
                 s # r /\ Distance(s.embedding[1], q) <= Distance(r.embedding[1], q)}) < topK

C2_GlobalVisibleEverywhere ==
  searchOut.status = "ok" =>
    \A r \in Candidates(searchOut.chatId) :
      (IsGlobal(r.documentId) /\ RanksWithin(r, searchOut.chatId, searchOut.query, searchOut.topK))
        => r.id \in ReturnedIds

(***************************************************************************)
(* C9: at most topK results, nearest first, and no visible chunk left out  *)
(* is strictly nearer than a returned one.                                 *)
(***************************************************************************)
Visible(chatId) ==
  {r \in embeddingsTbl : r.embedding # NoVector /\ <<chatId, r.documentId>> \in chatDocs}

RowOf(id) == CHOOSE r \in embeddingsTbl : r.id = id

DistOf(id) == Distance(RowOf(id).embedding[1], searchOut.query)

C9_TopKRanked ==
  searchOut.status = "ok" =>
    /\ Len(searchOut.rows) <= searchOut.topK
    /\ \A m, n \in 1..Len(searchOut.rows) :
         m < n => DistOf(searchOut.rows[m].id) <= DistOf(searchOut.rows[n].id)
    /\ \A r \in Visible(searchOut.chatId) :
         r.id \notin ReturnedIds =>
           \A id \in ReturnedIds : DistOf(id) <= Distance(r.embedding[1], searchOut.query)

\* the default topK cut a longer list of visible chunks at different distances
C9_Witness ==
  /\ searchOut.status = "ok"
  /\ searchOut.topK = AI_CONFIG_topK
  /\ Len(searchOut.rows) = AI_CONFIG_topK
  /\ \E r \in Visible(searchOut.chatId) : r.id \notin ReturnedIds
  /\ DistOf(searchOut.rows[1].id) < DistOf(searchOut.rows[Len(searchOut.rows)].id)

(***************************************************************************)
(* C10: a search for a chat with no linked document (the empty store       *)
(* included) returns the empty list and raises no error.                   *)
(***************************************************************************)
C10_EmptyScopeReturnsEmpty ==
  (searchOut.status # "none" /\ ChatDocIds(searchOut.chatId) = {}) =>
    (searchOut.status = "ok" /\ searchOut.rows = <<>>)

(***************************************************************************)
(* formatContextForLLM and the prompt template as functions of their       *)
(* input: a ranked result list with distinct chunks, in any order, is      *)
(* formatted, and the prompt is made from the text.                        *)
(***************************************************************************)
\* longest result list tried
MaxResults == 3

Results == {ToResult([id |-> <<d, i>>, documentId |-> d, chunkIndex |-> i,
                      embedding |-> Vector(generateEmbedding(d, i))])
              : d \in DocIds, i \in 0..(ChunksPerDoc - 1)}

RankedLists ==
  {chunks \in UNION {[1..n -> Results] : n \in 0..MaxResults} :
     \A m, n \in 1..Len(chunks) : m # n => chunks[m] # chunks[n]}

FormatInit ==
  /\ AgentStore
  /\ checkpoint = [t \in ThreadIds |-> <<>>]
  /\ turn = IdleTurn
  /\ \E chunks \in RankedLists : fmt = [NoFormat EXCEPT !.pc = "chunks", !.chunks = chunks]
  /\ NoClients
  /\ files = NoFiles
  /\ usage = NoUsage

FormatContext ==
  /\ fmt.pc = "chunks"
  /\ fmt' = [fmt EXCEPT !.pc = "context", !.context = formatContextForLLM(fmt.chunks)]
  /\ UNCHANGED <<storeVars, agentVars, clientVars, fileVars>>

ComposePrompt ==
  /\ fmt.pc = "context"
  /\ fmt' = [fmt EXCEPT !.pc = "prompt", !.prompt = SystemPrompt(fmt.context)]
  /\ UNCHANGED <<storeVars, agentVars, clientVars, fileVars>>

FormatNext == FormatContext \/ ComposePrompt

SpecFormat == FormatInit /\ [][FormatNext]_vars

(***************************************************************************)
(* C11: in the formatted context the chunks of each document stand in      *)
(* ascending chunkIndex order, whatever the order of the result list; and  *)
(* every chunk of the list stands in the context.                          *)
(***************************************************************************)
Formatted == fmt.pc \in {"context", "prompt"}

ChunkLines(context) == SelectSeq(context, LAMBDA l : l.kind = "chunk")

\* the ids <<document, chunkIndex>> of the chunks of the context, in order
ContextIds(context) == [n \in 1..Len(ChunkLines(context)) |-> ChunkLines(context)[n].id]

C11_ChunksAscendWithinDocument ==
  Formatted =>
    LET ids == ContextIds(fmt.context)
    IN /\ \A m, n \in 1..Len(ids) : (m < n /\ ids[m][1] = ids[n][1]) => ids[m][2] < ids[n][2]
       /\ {ids[n] : n \in 1..Len(ids)} = {fmt.chunks[n].id : n \in 1..Len(fmt.chunks)}

\* a list that ranks a later chunk of a document before an earlier one
C11_Witness ==
  /\ Formatted
  /\ \E m, n \in 1..Len(fmt.chunks) :
       /\ m < n
       /\ fmt.chunks[m].documentId = fmt.chunks[n].documentId
       /\ fmt.chunks[m].chunkIndex > fmt.chunks[n].chunkIndex

(***************************************************************************)
(* C12: the context has one group per owning document, no group holds      *)
(* chunks of two documents, and the groups stand in the order in which     *)
(* the documents first appear in the result list.                          *)
(***************************************************************************)
RECURSIVE FirstAppearance(_)
FirstAppearance(docs) ==
  IF docs = <<>> THEN <<>>
  ELSE LET rest == FirstAppearance(SubSeq(docs, 1, Len(docs) - 1))
           d == docs[Len(docs)]
       IN IF \E n \in 1..Len(rest) : rest[n] = d THEN rest ELSE Append(rest, d)

DocsOfList(chunks) == [n \in 1..Len(chunks) |-> chunks[n].documentId]

DocsOfContext(context) == [n \in 1..Len(ContextIds(context)) |-> ContextIds(context)[n][1]]

Headers(context) == SelectSeq(context, LAMBDA l : l.kind = "header")

C12_GroupsByDocument ==
  Formatted =>
    /\ \A n \in 1..(Len(fmt.context) - 1) :
         (fmt.context[n].kind = "chunk" /\ fmt.context[n + 1].kind = "chunk")
           => fmt.context[n].id[1] = fmt.context[n + 1].id[1]
    /\ Len(Headers(fmt.context)) = Len(FirstAppearance(DocsOfList(fmt.chunks)))
    /\ FirstAppearance(DocsOfContext(fmt.context)) = FirstAppearance(DocsOfList(fmt.chunks))

(***************************************************************************)
(* C13: an empty result list is formatted to the empty text, and the       *)
(* prompt made from the empty text has the fixed placeholder as its        *)
(* context section, never an empty section.                                *)
(***************************************************************************)
C13_EmptyResultGivesPlaceholder ==
  /\ (Formatted /\ fmt.chunks = <<>>) => fmt.context = EmptyText
  /\ (fmt.pc = "prompt" /\ fmt.context = EmptyText)
       => /\ fmt.prompt.context = Placeholder
          /\ fmt.prompt.context # EmptyText
          /\ fmt.prompt.instructions = "fixed"

\* the prompt was made from the text of an empty result list
C13_Witness == fmt.pc = "prompt" /\ fmt.chunks = <<>> /\ fmt.prompt # NoPrompt

(***************************************************************************)
(* C14: the run moves along the fixed chain of stages only: a new run      *)
(* starts with the memory update, then summarization, query                *)
(* transformation, retrieval with the prompt, generation, and only the     *)
(* generation ends the run (completed or failed). No stage is entered      *)
(* twice, none is left out.                                                *)
(***************************************************************************)
Terminal == {"Completed", "Failed"}

StageChain ==
  {<<from, "MaybeSummarize">> : from \in {"Idle"} \cup Terminal}
    \cup {<<"MaybeSummarize", "Rewrite">>, <<"Rewrite", "Retrieve">>, <<"Retrieve", "Generate">>}
    \cup {<<"Generate", to>> : to \in Terminal}

C14_StagesInFixedOrder == [][turn' # turn => <<turn.pc, turn'.pc>> \in StageChain]_vars

(***************************************************************************)
(* The chat box and the route together: tabs send messages, the route      *)
(* starts a run of the agent per request, the answer streams back, and     *)
(* onFinish saves what the tab holds of the answer. A row of table         *)
(* messages is [role, turn, tokens]: turn names the tab and the number of  *)
(* the message it sent, tokens is how much of the answer it holds. A run   *)
(* is followed from its start to its end; its stages are those of the      *)
(* agent above. The stream is delivered in order and without delay.        *)
(***************************************************************************)
\* messages the tabs send, all together
MaxSends == 2
\* text deltas of one answer
MaxTokens == 1

Row(role, k, no, tokens) == [role |-> role, turn |-> <<k, no>>, tokens |-> tokens]

\* saveMessage(chatId, role, content): prisma.message.create
saveMessage(tbl, chatId, row) == [tbl EXCEPT ![chatId] = Append(@, row)]

\* isLoading = status === 'streaming' || status === 'submitted'
isLoading(k) == clients[k].status \in {"streaming", "submitted"}

\* a tab is opened on a chat, or on no chat
OpenChat(k, chatId) ==
  /\ clients[k] = NewClient(NULL)
  /\ chatId # NULL
  /\ clients' = [clients EXCEPT ![k] = NewClient(chatId)]
  /\ UNCHANGED <<messagesTbl, requests, storeVars, agentVars, formatVars, fileVars>>

\* handleSendMessage: the user message is saved, then sendMessage posts the
\* messages of the tab to /api/chat
handleSendMessage(k) ==
  /\ ~(isLoading(k) \/ clients[k].chatId = NULL)
  /\ clients[k].status # "closed"
  /\ clients["k1"].sent + clients["k2"].sent < MaxSends
  /\ messagesTbl' = saveMessage(messagesTbl, clients[k].chatId,
                                Row("user", k, clients[k].sent + 1, 0))
  /\ clients' = [clients EXCEPT ![k].status = "submitted", ![k].sent = @ + 1,
                                ![k].ui = @ + 1, ![k].partial = 0,
                                ![k].lastSend = "sent"]
  /\ requests' = [requests EXCEPT ![k] = [pc |-> "Requested",
                                          thread |-> ThreadOf(clients[k].chatId),
                                          no |-> clients[k].sent + 1]]
  /\ UNCHANGED <<storeVars, agentVars, formatVars, fileVars>>

\* handleSendMessage when saveMessage throws: the handler ends at the await,
\* sendMessage is not reached, the text typed is lost
handleSendMessageSaveFails(k) ==
  /\ ~(isLoading(k) \/ clients[k].chatId = NULL)
  /\ clients[k].status # "closed"
  /\ clients[k].lastSend # "saveFailed"
  /\ clients' = [clients EXCEPT ![k].lastSend = "saveFailed"]
  /\ UNCHANGED <<messagesTbl, requests, storeVars, agentVars, formatVars, fileVars>>

\* a caller of the route that shows no chat posts a message with no id (the
\* chat box itself sends nothing without a chat): the run will be on the
\* thread 'default-thread'
sendWithoutId(k) ==
  /\ ~isLoading(k)
  /\ clients[k].chatId = NULL
  /\ clients[k].status # "closed"
  /\ clients["k1"].sent + clients["k2"].sent < MaxSends
  /\ clients' = [clients EXCEPT ![k].status = "submitted", ![k].sent = @ + 1,
                                ![k].ui = @ + 1, ![k].partial = 0]
  /\ requests' = [requests EXCEPT ![k] = [pc |-> "Requested",
                                          thread |-> ThreadOf(NULL),
                                          no |-> clients[k].sent + 1]]
  /\ UNCHANGED <<messagesTbl, storeVars, agentVars, formatVars, fileVars>>

\* POST: runRagAgent(messages, chatId) starts the run on the thread of the
\* chat; nothing is asked about other runs of the thread
POST(k) ==
  /\ requests[k].pc = "Requested"
  /\ requests' = [requests EXCEPT ![k].pc = "Running"]
  /\ checkpoint' = [checkpoint EXCEPT ![requests[k].thread] = @ \o Batch(clients[k].ui, "human")]
  /\ UNCHANGED <<messagesTbl, clients, turn, storeVars, formatVars, fileVars>>

\* a text delta of the answer reaches the tab
StreamDelta(k) ==
  /\ requests[k].pc = "Running"
  /\ clients[k].status \in {"submitted", "streaming"}
  /\ clients[k].partial < MaxTokens
  /\ clients' = [clients EXCEPT ![k].status = "streaming", ![k].partial = @ + 1]
  /\ UNCHANGED <<messagesTbl, requests, storeVars, agentVars, formatVars, fileVars>>

\* mutant: the answer is saved twice
onFinish_Twice(k) ==
  IF clients[k].chatId = NULL THEN messagesTbl
  ELSE saveMessage(saveMessage(messagesTbl, clients[k].chatId,
                               Row("assistant", k, requests[k].no, clients[k].partial)),
                   clients[k].chatId,
                   Row("assistant", k, requests[k].no, clients[k].partial))

\* onFinish({message}): if (!chatId) return; saveMessage(chatId, 'assistant',
\* the text parts of the message), whatever ended the response
onFinish(k) ==
  IF clients[k].chatId = NULL THEN messagesTbl
  ELSE saveMessage(messagesTbl, clients[k].chatId,
                   Row("assistant", k, requests[k].no, clients[k].partial))

\* the tab holds an assistant message once the response has ended
Ended(k, status) == [clients EXCEPT ![k].status = status, ![k].ui = @ + 1]

\* the run ends with the answer, the stream with its finish
StreamFinish(k) ==
  /\ requests[k].pc = "Running"
  /\ clients[k].status \in {"submitted", "streaming"}
  /\ requests' = [requests EXCEPT ![k].pc = "Completed"]
  /\ checkpoint' = [checkpoint EXCEPT ![requests[k].thread] = Append(@, Msg("ai", "answer", 0))]
  /\ messagesTbl' = onFinish(k)
  /\ clients' = Ended(k, "ready")
  /\ UNCHANGED <<turn, storeVars, formatVars, fileVars>>

\* the run throws, the stream carries the error
StreamError(k) ==
  /\ requests[k].pc = "Running"
  /\ clients[k].status \in {"submitted", "streaming"}
  /\ requests' = [requests EXCEPT ![k].pc = "Failed"]
  /\ messagesTbl' = onFinish(k)
  /\ clients' = Ended(k, "error")
  /\ UNCHANGED <<storeVars, agentVars, formatVars, fileVars>>

\* the connection is lost while the answer streams: the run is cancelled,
\* the fetch of the tab rejects and useChat ends the response
Disconnect(k) ==
  /\ requests[k].pc = "Running"
  /\ clients[k].status \in {"submitted", "streaming"}
  /\ requests' = [requests EXCEPT ![k].pc = "Cancelled"]
  /\ messagesTbl' = onFinish(k)
  /\ clients' = Ended(k, "error")
  /\ UNCHANGED <<storeVars, agentVars, formatVars, fileVars>>

\* the tab is closed while the answer streams: the run is cancelled and no
\* code of the tab runs any more
CloseTab(k) ==
  /\ requests[k].pc = "Running"
  /\ clients[k].status \in {"submitted", "streaming"}
  /\ requests' = [requests EXCEPT ![k].pc = "Cancelled"]
  /\ clients' = [clients EXCEPT ![k].status = "closed"]
  /\ UNCHANGED <<messagesTbl, storeVars, agentVars, formatVars, fileVars>>

ClientInit ==
  /\ AgentStore
  /\ checkpoint = [t \in ThreadIds |-> <<>>]
  /\ turn = IdleTurn
  /\ fmt = NoFormat
  /\ NoClients
  /\ files = NoFiles
  /\ usage = NoUsage

ClientNext ==
  \/ \E k \in Clients, c \in ChatIds : OpenChat(k, c)
  \/ \E k \in Clients : handleSendMessage(k)
  \/ \E k \in Clients : handleSendMessageSaveFails(k)
  \/ \E k \in Clients : sendWithoutId(k)
  \/ \E k \in Clients : POST(k)
  \/ \E k \in Clients : StreamDelta(k)
  \/ \E k \in Clients : StreamFinish(k)
  \/ \E k \in Clients : StreamError(k)
  \/ \E k \in Clients : Disconnect(k)
  \/ \E k \in Clients : CloseTab(k)

SpecClient == ClientInit /\ [][ClientNext]_vars

(***************************************************************************)
(* C16: when a run is cancelled while the answer is generated, table       *)
(* messages holds no assistant row of that turn, and the user row of the   *)
(* turn is still there.                                                    *)
(***************************************************************************)
SavedRows(k) == IF clients[k].chatId = NULL THEN <<>> ELSE messagesTbl[clients[k].chatId]

RowsOfTurn(k, role) ==
  {n \in 1..Len(SavedRows(k)) :
     /\ SavedRows(k)[n].role = role
     /\ SavedRows(k)[n].turn = <<k, requests[k].no>>}

C16_CancelledTurnSavesNoAnswer ==
  \A k \in Clients :
    (requests[k].pc = "Cancelled" /\ clients[k].chatId # NULL) =>
      /\ RowsOfTurn(k, "assistant") = {}
      /\ RowsOfTurn(k, "user") # {}

(***************************************************************************)
(* C17: two runs on the same thread never overlap: while one is under way  *)
(* no other run of the thread is.                                          *)
(***************************************************************************)
C17_NoOverlapOnThread ==
  \A k1, k2 \in Clients :
    (k1 # k2 /\ requests[k1].pc = "Running" /\ requests[k2].pc = "Running")
      => requests[k1].thread # requests[k2].thread

(***************************************************************************)
(* C18: in every state of the store, a running or failed upload included,  *)
(* retrieval has either all the chunks of a document, with their vectors,  *)
(* or none of them: the rows of a document that carry a vector are all     *)
(* its chunks or none, and a search returns no chunk without a vector and  *)
(* no chunk of a document that is not stored in full.                      *)
(***************************************************************************)
WithVector(d) == {r \in ChunkRows(d) : r.embedding # NoVector}

StoredInFull(d) ==
  /\ WithVector(d) = ChunkRows(d)
  /\ {r.chunkIndex : r \in ChunkRows(d)} = 0..(ChunksPerDoc - 1)

C18_AllChunksOrNone ==
  /\ \A d \in DocIds : WithVector(d) = {} \/ StoredInFull(d)
  /\ searchOut.status = "ok" =>
       \A id \in ReturnedIds : RowOf(id).embedding # NoVector /\ StoredInFull(OwnerOf(id))

\* a search returned chunks for a chat that also has a document whose rows
\* are created and whose vectors are not written yet
C18_Witness ==
  /\ searchOut.status = "ok"
  /\ searchOut.rows # <<>>
  /\ \E d \in ChatDocIds(searchOut.chatId) : ChunkRows(d) # {} /\ WithVector(d) = {}

(***************************************************************************)
(* C19: when the embedding call or the query of the chunk store fails in   *)
(* the Retrieve stage, the run does not fail there: it goes on, with the   *)
(* empty context, to the prompt and the generation.                        *)
(***************************************************************************)
C19_RetrievalFailureDegrades ==
  turn.retrieval = "error" =>
    /\ turn.pc \in {"Generate", "Completed"} \/ "generateFailed" \in turn.calls
    /\ turn.context = EmptyText

(***************************************************************************)
(* C20: when the model call of the query transformation fails, the run     *)
(* does not fail there: it goes on to the Retrieve stage with the text of  *)
(* the last user message as the query.                                     *)
(***************************************************************************)
C20_RewriteFailureFallsBack ==
  "transformFailed" \in turn.calls =>
    /\ turn.pc \in {"Retrieve", "Generate", "Completed"}
         \/ turn.calls \cap {"retrieveFailed", "generateFailed"} # {}
    /\ Last(turn.messages).text[1] = "user"

(***************************************************************************)
(* C21: when the run fails (the model call of the generation throws),      *)
(* table messages holds no assistant row of that turn.                     *)
(***************************************************************************)
C21_FailedTurnSavesNoAnswer ==
  \A k \in Clients :
    requests[k].pc = "Failed" => RowsOfTurn(k, "assistant") = {}

(***************************************************************************)
(* C22: a turn with empty user text or with no chat id is rejected before  *)
(* any stage runs and leaves nothing behind: no run is started for it, no  *)
(* thread memory is made or changed, no model is called.                   *)
(***************************************************************************)
C22_InvalidTurnRejected ==
  /\ checkpoint[DefaultThread] = <<>>
  /\ \A t \in ThreadIds : \A n \in 1..Len(checkpoint[t]) : checkpoint[t][n] # EmptyTurn[1]
  /\ turn.pc # "Idle" => turn.chatId # NULL

(***************************************************************************)
(* C23 as stated: retrieval is skipped exactly when the run has no chat    *)
(* id.                                                                     *)
(***************************************************************************)
AfterRetrieve == turn.retrieval # "none"

C23_SkippedIffNoScope ==
  AfterRetrieve => (turn.retrieval = "skipped" <=> turn.chatId = NULL)

(***************************************************************************)
(* C23 amended: retrieval is skipped exactly when the run has no chat id   *)
(* or the working query is blank; then nothing is searched and the prompt  *)
(* carries the placeholder. With a chat id and a query that is not blank,  *)
(* retrieval is made with the working query, the text of the last message. *)
(***************************************************************************)
C23_SkippedIffNoScopeOrBlank ==
  AfterRetrieve =>
    /\ turn.retrieval = "skipped" <=> (turn.chatId = NULL \/ IsBlank(turn.query))
    /\ turn.retrieval = "skipped" =>
         /\ turn.context = EmptyText
         /\ turn.prompt.context = Placeholder
         /\ "retrieveFailed" \notin turn.calls
    /\ turn.query = Last(turn.stageIn).text
    /\ turn.retrieval = "ok" => turn.prompt = SystemPrompt(turn.context)

\* a run with a chat id skipped retrieval for a blank query
C23_Witness ==
  /\ turn.retrieval = "skipped"
  /\ turn.chatId # NULL
  /\ turn.prompt.context = Placeholder

(***************************************************************************)
(* C24: the messages the query transformation passes to the model are at   *)
(* most the last 3 messages of the log, however long the log is.           *)
(***************************************************************************)
RewriteWindow == 3

C24_RewriteWindowBounded ==
  turn.calls \cap {"transform", "transformFailed"} # {} => Len(turn.window) <= RewriteWindow

(***************************************************************************)
(* C25: the query transformation leaves the log of the thread as it was:   *)
(* after the stage the saved log still begins with every message it held   *)
(* before the stage, in the same order.                                    *)
(***************************************************************************)
IsPrefix(s, t) == Len(s) <= Len(t) /\ SubSeq(t, 1, Len(s)) = s

C25_RewriteKeepsLog ==
  (turn.pc = "Retrieve" /\ turn.rewritten) =>
    /\ IsPrefix(turn.stageIn, turn.messages)
    /\ IsPrefix(turn.stageIn, checkpoint[ThreadOf(turn.chatId)])

(***************************************************************************)
(* C26: runs of different conversations work on different threads. The     *)
(* conversation of a caller is its chat, and a caller that sends no chat   *)
(* id is a conversation of its own.                                        *)
(***************************************************************************)
Conversation(k) == IF clients[k].chatId = NULL THEN k ELSE clients[k].chatId

C26_ConversationsDisjoint ==
  \A k1, k2 \in Clients :
    (requests[k1].pc # "none" /\ requests[k2].pc # "none" /\ Conversation(k1) # Conversation(k2))
      => requests[k1].thread # requests[k2].thread

(***************************************************************************)
(* uploadDocument(formData) with the size of the file: the two limits are  *)
(* tested before anything is written; then the blob is put and the         *)
(* document row is created (storeEmbeddings follows, as above). The store  *)
(* may already hold other documents; only their total size matters here.   *)
(***************************************************************************)
\* 10 * 1024 * 1024 and 200 * 1024 * 1024
MaxFileBytes == 10 * 1024 * 1024
MaxStorageBytes == 200 * 1024 * 1024

\* file.size of the uploads tried
FileSizes == {1, MaxFileBytes, MaxFileBytes + 1}

\* total sizes of the other documents tried
OtherBytes == {0, MaxStorageBytes - MaxFileBytes - 1, MaxStorageBytes - MaxFileBytes,
               MaxStorageBytes - 1}

RECURSIVE SumSizes(_)
SumSizes(docs) ==
  IF docs = {} THEN 0
  ELSE LET d == CHOOSE x \in docs : TRUE IN files.size[d] + SumSizes(docs \ {d})

\* getTotalFileSize(): the sum of metadata.size over all documents
getTotalFileSize == files.other + SumSizes(documents)

\* mutant: the test of the storage limit is lost
Validate_NoQuota(size, totalBytes) == IF size > MaxFileBytes THEN "size" ELSE "ok"

Validate(size, totalBytes) ==
  IF size > MaxFileBytes THEN "size"
  ELSE IF totalBytes + size > MaxStorageBytes THEN "quota"
  ELSE "ok"

\* totalBytes is what getTotalFileSize returned: the sum, or 0 when its query
\* threw
uploadDocumentForm(d, chatId, size, totalBytes) ==
  /\ d \notin documents
  /\ d \notin files.blobs
  /\ IF Validate(size, totalBytes) = "ok"
     THEN /\ files' = [files EXCEPT !.blobs = @ \cup {d}, !.size[d] = size,
                                    !.upload = [status |-> "stored", reason |-> "ok",
                                                size |-> size, total |-> totalBytes]]
          /\ documents' = documents \cup {d}
          /\ chatDocs' = chatDocs \cup UploadLinks(d, chatId)
          /\ searchOut' = NoSearch
          /\ UNCHANGED embeddingsTbl
     ELSE /\ files' = [files EXCEPT !.upload = [status |-> "rejected",
                                                reason |-> Validate(size, totalBytes),
                                                size |-> size, total |-> totalBytes]]
          /\ UNCHANGED storeVars
  /\ UNCHANGED <<agentVars, formatVars, clientVars, usage>>

UploadInit ==
  /\ documents = {}
  /\ chatDocs = {}
  /\ embeddingsTbl = {}
  /\ searchOut = NoSearch
  /\ checkpoint = [t \in ThreadIds |-> <<>>]
  /\ turn = IdleTurn
  /\ fmt = NoFormat
  /\ NoClients
  /\ \E other \in OtherBytes : files = [NoFiles EXCEPT !.other = other]
  /\ usage = NoUsage

UploadNext ==
  \/ \E d \in DocIds, c \in ChatIds \cup {NULL}, size \in FileSizes :
       \/ uploadDocumentForm(d, c, size, getTotalFileSize)
       \/ uploadDocumentForm(d, c, size, 0)
  \/ \E d \in DocIds : storeEmbeddingsCreate(d)
  \/ \E d \in DocIds : storeEmbeddingsAddModels(d)

SpecUpload == UploadInit /\ [][UploadNext]_vars

(***************************************************************************)
(* C27: an upload rejected for the size of the file (more than 10 MiB) or  *)
(* for the storage limit (total plus file more than 200 MiB) changes       *)
(* nothing: no blob, no document row, no chunk, the same total size; and   *)
(* an upload over one of the limits is rejected.                           *)
(***************************************************************************)
C27_RejectedUploadHasNoEffect ==
  [][files'.upload # files.upload =>
       /\ (files'.upload.size > MaxFileBytes
             \/ files'.upload.total + files'.upload.size > MaxStorageBytes)
            => files'.upload.status = "rejected"
       /\ files'.upload.status = "rejected" =>
            /\ files'.blobs = files.blobs
            /\ documents' = documents
            /\ chatDocs' = chatDocs
            /\ embeddingsTbl' = embeddingsTbl
            /\ getTotalFileSize' = getTotalFileSize]_vars

\* an upload was rejected for the storage limit while documents were stored
C27_Witness ==
  /\ files.upload.status = "rejected"
  /\ files.upload.reason = "quota"
  /\ files.upload.size <= MaxFileBytes
  /\ documents # {}

(***************************************************************************)
(* C28: in table messages of a chat, the turn of every request of a tab    *)
(* has its user row saved (a send whose save failed made no request),      *)
(* every assistant row comes after the user row of its turn, and a turn    *)
(* has at most one assistant row.                                          *)
(***************************************************************************)
RowsAt(chatId, role, turnId) ==
  {n \in 1..Len(messagesTbl[chatId]) :
     messagesTbl[chatId][n].role = role /\ messagesTbl[chatId][n].turn = turnId}

C28_UserRowBeforeAnswer ==
  /\ \A k \in Clients :
       (requests[k].pc # "none" /\ clients[k].chatId # NULL) =>
         /\ RowsOfTurn(k, "user") # {}
         /\ requests[k].no = clients[k].sent
  /\ \A k \in Clients :
       clients[k].chatId # NULL =>
         Cardinality({n \in 1..Len(SavedRows(k)) :
                        SavedRows(k)[n].role = "user" /\ SavedRows(k)[n].turn[1] = k})
           = clients[k].sent
  /\ \A c \in ChatIds : \A n \in 1..Len(messagesTbl[c]) :
       messagesTbl[c][n].role = "assistant" =>
         /\ \E m \in 1..(n - 1) : m \in RowsAt(c, "user", messagesTbl[c][n].turn)
         /\ Cardinality(RowsAt(c, "assistant", messagesTbl[c][n].turn)) = 1

\* the second turn of a tab has its answer saved, after a send whose save failed
C28_Witness ==
  \E k \in Clients :
    /\ clients[k].chatId # NULL
    /\ requests[k].no = MaxSends
    /\ RowsOfTurn(k, "assistant") # {}
    /\ clients[k].lastSend = "saveFailed"

(***************************************************************************)
(* getUsageState (usage.actions.ts)                                        *)
(***************************************************************************)
\* hundredths in one credit
CreditUnit == 100

\* the least balance that is not a reached limit: credits < 3
MinCredits == 3 * CreditUnit

\* data.balance of the answers tried: a numeral, a text that is no numeral,
\* or no field at all
Balances ==
  {[kind |-> "number", value |-> v] :
     v \in {0 - CreditUnit, 0, MinCredits - 1, MinCredits, MinCredits + 1}}
    \cup {[kind |-> "text", value |-> 0], [kind |-> "missing", value |-> 0]}

\* what the fetch of /credits does: response.ok, !response.ok, or a throw of
\* fetch or of response.json()
Lookups == {"ok", "notOk", "throws"}

\* total sizes of the documents tried, around the limit
UsageBytes == {0, MaxStorageBytes - 1, MaxStorageBytes, MaxStorageBytes + 1}

parseFloat(balance) == IF balance.kind = "number" THEN Num(balance.value) ELSE NaN

\* a < b of two numbers: false when one is NaN
LessThan(a, b) == ~a.nan /\ ~b.nan /\ a.value < b.value

\* let credits = 0; the assignment is reached with an api key and response.ok
Credits(env) ==
  IF env.apiKey /\ env.lookup = "ok" THEN parseFloat(env.balance) ELSE Num(0)

\* mutant: a balance of exactly 3 credits counts as reached
CreditLimitReached_AtMost(credits) == LessThan(credits, Num(MinCredits + 1))

CreditLimitReached(credits) == LessThan(credits, Num(MinCredits))

StorageLimitReached(totalBytes) == totalBytes > MaxStorageBytes

UsageState(env, totalBytes) ==
  [called |-> TRUE, credits |-> Credits(env), totalBytes |-> totalBytes,
   isCreditLimitReached |-> CreditLimitReached(Credits(env)),
   isStorageLimitReached |-> StorageLimitReached(totalBytes),
   isLimitReached |-> CreditLimitReached(Credits(env)) \/ StorageLimitReached(totalBytes)]

\* totalBytes is what getTotalFileSize returned: the sum, or 0 when its query
\* threw
getUsageState(totalBytes) ==
  /\ usage' = [usage EXCEPT !.result = UsageState(usage, totalBytes)]
  /\ UNCHANGED <<storeVars, agentVars, formatVars, clientVars, files>>

UsageInit ==
  /\ documents = {}
  /\ chatDocs = {}
  /\ embeddingsTbl = {}
  /\ searchOut = NoSearch
  /\ checkpoint = [t \in ThreadIds |-> <<>>]
  /\ turn = IdleTurn
  /\ fmt = NoFormat
  /\ NoClients
  /\ \E other \in UsageBytes : files = [NoFiles EXCEPT !.other = other]
  /\ \E key \in BOOLEAN, lookup \in Lookups, balance \in Balances :
       usage = [apiKey |-> key, lookup |-> lookup, balance |-> balance,
                result |-> NoResult]

UsageNext ==
  \/ getUsageState(getTotalFileSize)
  \/ getUsageState(0)

SpecUsage == UsageInit /\ [][UsageNext]_vars

(***************************************************************************)
(* C29: what getUsageState returns has isLimitReached = isCreditLimit-     *)
(* Reached or isStorageLimitReached, the former exactly when credits < 3,  *)
(* the latter exactly when totalBytes > 200 MiB; with no api key, a        *)
(* response that is not ok or a throw of the lookup, credits is 0 and the  *)
(* limit is reached.                                                       *)
(***************************************************************************)
C29_LimitFlags ==
  usage.result.called =>
    LET r == usage.result IN
      /\ r.isLimitReached = (r.isCreditLimitReached \/ r.isStorageLimitReached)
      /\ r.isCreditLimitReached = (~r.credits.nan /\ r.credits.value < 3 * CreditUnit)
      /\ r.isStorageLimitReached = (r.totalBytes > 200 * 1024 * 1024)
      /\ (~usage.apiKey \/ usage.lookup # "ok") =>
           /\ r.credits = Num(0)
           /\ r.isLimitReached

\* a balance of exactly 3 credits and a storage of exactly 200 MiB: no limit
C29_Witness ==
  /\ usage.result.called
  /\ usage.result.credits = Num(3 * CreditUnit)
  /\ usage.result.totalBytes = 200 * 1024 * 1024
  /\ ~usage.result.isLimitReached

(***************************************************************************)
(* A knowledge base in use: three documents with their vectors and blobs,  *)
(* document 1 linked to both chats, document 2 to chat c1, document 3 to   *)
(* none; links are added and removed, documents deleted, chats searched.   *)
(* No document is created here: the id of a deleted document is not used   *)
(* again.                                                                  *)
(***************************************************************************)
LinksInit ==
  /\ documents = DocIds
  /\ chatDocs = {<<"c1", 1>>, <<"c2", 1>>, <<"c1", 2>>}
  /\ embeddingsTbl =
       {[id |-> <<d, i>>, documentId |-> d, chunkIndex |-> i,
         embedding |-> Vector(generateEmbedding(d, i))] : d \in DocIds, i \in 0..(ChunksPerDoc - 1)}
  /\ searchOut = NoSearch
  /\ checkpoint = [t \in ThreadIds |-> <<>>]
  /\ turn = IdleTurn
  /\ fmt = NoFormat
  /\ NoClients
  /\ files = [NoFiles EXCEPT !.blobs = DocIds]
  /\ usage = NoUsage

LinksNext ==
  \/ \E d \in DocIds, c \in ChatIds : addDocumentToChat(d, c)
  \/ \E d \in DocIds, c \in ChatIds : removeDocumentFromChat(d, c)
  \/ \E d \in DocIds : deleteDocument(d)
  \/ \E d \in DocIds : deleteDocumentFails(d)
  \/ \E q \in QueryVecs, c \in ChatIds, k \in TopKs : Search(q, c, k)

SpecLinks == LinksInit /\ [][LinksNext]_vars

(***************************************************************************)
(* C30: retrieval follows the links as they are now. After a successful    *)
(* removeDocumentFromChat(d, c) or deleteDocument(d) no retrieval for c    *)
(* returns a chunk of d, and d comes back into what c retrieves only by    *)
(* addDocumentToChat(d, c); after addDocumentToChat(d, c) every chunk of d *)
(* that has a vector is returned to c when topK does not cut the list.     *)
(***************************************************************************)
\* the topK of the callers, and one that does not cut the list
AnyTopK == TopKs \cup {Cardinality(embeddingsTbl)}

DocsOfRows(rows) == {rows[n].documentId : n \in 1..Len(rows)}

\* the documents of which some retrieval for chat c returns a chunk
DocsReturned(c) ==
  UNION {DocsOfRows(searchSimilarChunks(q, c, k).rows) : q \in QueryVecs, k \in AnyTopK}

\* every chunk of d with a vector is among the results of an uncut search
AreCandidates(d, c) ==
  \A q \in QueryVecs :
    LET rows == searchSimilarChunks(q, c, Cardinality(embeddingsTbl)).rows
    IN {r.id : r \in {x \in ChunkRows(d) : x.embedding # NoVector}}
         \subseteq {rows[n].id : n \in 1..Len(rows)}

\* in every state, what a chat retrieves is within its links, and what is
\* linked is a candidate
C30_FollowsLinks ==
  \A c \in ChatIds :
    /\ \A d \in DocsReturned(c) : d \in documents /\ <<c, d>> \in chatDocs
    /\ \A d \in documents : <<c, d>> \in chatDocs => AreCandidates(d, c)

\* a link goes with removeDocumentFromChat and deleteDocument, and comes
\* with addDocumentToChat only
C30_LinkSteps ==
  /\ \A d \in DocIds, c \in ChatIds :
       removeDocumentFromChat(d, c) => <<c, d>> \notin chatDocs'
  /\ \A d \in DocIds :
       deleteDocument(d) =>
         /\ d \notin documents'
         /\ \A c \in ChatIds : <<c, d>> \notin chatDocs'
  /\ \A d \in DocIds, c \in ChatIds :
       addDocumentToChat(d, c) => (d \in documents' /\ <<c, d>> \in chatDocs')
  /\ \A d \in DocIds, c \in ChatIds :
       (<<c, d>> \notin chatDocs /\ <<c, d>> \in chatDocs') => addDocumentToChat(d, c)
  /\ documents' \subseteq documents

====
